---- MODULE Spec2Model ----
(***************************************************************************)
(* frontlink: the connection/session manager of src/src/provider.tsx       *)
(* (the FrontlinkProvider of lines 355-648 and the two hooks of lines      *)
(* 659-767), as a state machine.  Every handler of the single-threaded     *)
(* event loop is one atomic action; connectToWS is split at its one await  *)
(* (the pre-connect hook).                                                 *)
(*                                                                         *)
(* The refs of the provider (conn, connectedRooms, msgDedupe) outlive the  *)
(* effect of lines 375-387: its cleanup and a second run of the effect     *)
(* (React's effect re-run on the same component instance) act on the same  *)
(* refs, and so do the timers and promises created before the cleanup.     *)
(***************************************************************************)
EXTENDS Integers, Sequences, FiniteSets, TLC

\* ------------------------------------------------------------------ bounds
MaxSock == 2        \* WebSocket objects not yet closed and forgotten, at once
MaxAttempts == 2    \* reconnect timers pending plus connectToWS calls awaiting preConnect
MaxBuf == 1         \* emitMessage polling loops alive at once
NumIDs == 2         \* distinct MessageIDs of data messages in play at once
MaxIntervals == 2   \* dedupe-truncation intervals running at once

\* ------------------------------------------------------------------ inputs
Rooms == {"A", "B"}
MsgIDs == 1..NumIDs
InTypes == {"StateUpdate", "CallFunction"}
InValues == {"v1", "v2"}
PresenceTypes == {"RoommateSubscribed", "RoommateUnsubscribed"}
UnknownTypes == {"RoommateConnected", "Ping"}   \* no case of the switch of lines 455-485
ClientIDs == {"k1", "k2"}
Tokens == {"t1", "t2"}   \* search params a preConnect promise can resolve to
RawFrames == {"malformed", "null"}   \* event.data that is not JSON, and the JSON text null

\* The hook call sites of the application: consumer c is a component calling
\* useSharedState(roomID, initialValue) or useSharedFunction(roomID, func).
HookSites ==
    << [roomID |-> "A", kind |-> "State", initialValue |-> "v1"],
       [roomID |-> "A", kind |-> "State", initialValue |-> "v2"],
       [roomID |-> "B", kind |-> "Function", initialValue |-> "undefined"],
       [roomID |-> "A", kind |-> "Function", initialValue |-> "undefined"] >>
Consumers == DOMAIN HookSites

\* ------------------------------------------------------------------ state
VARIABLES
    mounted,        \* the effect of lines 375-387 has run and not been cleaned up
    hasPreConnect,  \* props.preConnect is given
    conn,           \* conn.current: 0 for null, else a socket
    socks,          \* the WebSocket objects: readyState (rs), whether onclose, onerror and
                    \* onmessage are set (handlers), the search params of the url, and
                    \* the history field hAfterLoss (created by a connectToWS that
                    \* followed a connection loss)
    timers,         \* reconnect timers pending (setTimeout of line 495)
    pending,        \* connectToWS calls suspended at the await of line 401
    connectedRooms, \* connectedRooms.current, in Map insertion order; besides roomID and
                    \* kind an entry carries history fields the code never reads: hOwner
                    \* (the consumer whose subscribeToRoom created it), hSeed (the
                    \* initialValue of that call while no Subscribe has carried it) and
                    \* hStale (its owner has called unsubFromRoom after a connection loss)
    msgDedupe,      \* msgDedupe.current
    dedupeIntervals,\* the intervals created by the setInterval of line 389 and not cleared
    buffer,         \* the polling loops of emitMessage (setInterval of line 521), oldest first
    listeners,      \* consumers whose listener is registered on internalEmitter
    received,       \* history: MessageIDs decoded inbound since the last truncation
    hEmitted,       \* history: MessageIDs of the data messages an emitSetState or
                    \* emitCallFunction call sent or buffered since the last truncation
    hServer,        \* history: the rooms (with kind) whose last control message handed to
                    \* the socket conn.current was a Subscribe
    hOwed,          \* history: the rooms (with kind) that were in connectedRooms when the
                    \* socket conn.current opened and whose Subscribe has not been
                    \* handed to that socket since
    lostConn,       \* history: onclose has run and no connection has opened since
    act,            \* history: the handler that ran last
    evts,           \* history: events the last handler emitted on the public Emitter
    sent,           \* history: messages the last handler handed to WebSocket.send
    invoked,        \* history: internalEmitter listeners the last handler invoked
    console,        \* history: console.error calls of the last handler
    presence        \* history: payloads of the presence events the last handler emitted

vars == << mounted, hasPreConnect, conn, socks, timers, pending, connectedRooms,
           msgDedupe, dedupeIntervals, buffer, listeners, received, hEmitted, hServer, hOwed, lostConn, act, evts, sent,
           invoked, console, presence >>

FreeSock == [rs |-> "FREE", handlers |-> FALSE, url |-> "none", hAfterLoss |-> FALSE]
NoID == -1
NoMsg ==
    [MessageType |-> "none", RoomID |-> "none", MessageID |-> NoID,
     Value |-> "undefined", Args |-> "undefined", ClientID |-> "undefined"]

\* The mutable program state as one record, so that a handler is a function
\* from state to state; ok turns FALSE when a bound of the model would be passed.
St ==
    [ conn |-> conn, socks |-> socks, timers |-> timers, pending |-> pending,
      rooms |-> connectedRooms, dedupe |-> msgDedupe, buffer |-> buffer,
      listeners |-> listeners,
      evts |-> << >>, sent |-> << >>, invoked |-> {}, console |-> << >>,
      presence |-> << >>, ok |-> TRUE ]

Emit(p, e) == [p EXCEPT !.evts = Append(@, e)]

RoomIdx(rooms, r) == {i \in DOMAIN rooms : rooms[i].roomID = r}
Has(rooms, r) == RoomIdx(rooms, r) # {}
Entry(rooms, r) == rooms[CHOOSE i \in RoomIdx(rooms, r) : TRUE]
RemoveAt(seq, i) == SubSeq(seq, 1, i - 1) \o SubSeq(seq, i + 1, Len(seq))
Delete(rooms, r) == RemoveAt(rooms, CHOOSE i \in RoomIdx(rooms, r) : TRUE)

IsOpen(p) == p.conn # 0 /\ p.socks[p.conn].rs = "OPEN"

\* conn.current?.readyState === conn.current?.OPEN: with conn.current null both
\* sides are undefined and the comparison is true.
OptOpen(p) == p.conn = 0 \/ p.socks[p.conn].rs = "OPEN"

\* ------------------------------------------------------------ connection
\* closeCurrentConnection without lines 366-368: the handlers stay on the socket.
closeCurrentConnection_KeepHandlers(p) ==
    IF p.conn = 0 THEN p
    ELSE [p EXCEPT
            !.socks[p.conn] =
                IF p.socks[p.conn].rs \in {"CONNECTING", "OPEN"}
                THEN [@ EXCEPT !.rs = "CLOSING"]
                ELSE FreeSock,
            !.conn = 0]

closeCurrentConnection(p) ==
    IF p.conn = 0 THEN p
    ELSE [p EXCEPT
            !.socks[p.conn] =
                IF p.socks[p.conn].rs \in {"CONNECTING", "OPEN"}
                THEN [@ EXCEPT !.rs = "CLOSING", !.handlers = FALSE]
                ELSE FreeSock,
            !.conn = 0]

\* new WebSocket(url) with the four handlers assigned (lines 407-505); params
\* are the search params appended to props.api, "bare" for none.
newWebSocket(p, params) ==
    LET free == {s \in DOMAIN p.socks : p.socks[s].rs = "FREE"} IN
    IF free = {} THEN [p EXCEPT !.ok = FALSE]
    ELSE LET s == CHOOSE x \in free : \A y \in free : x <= y IN
         [p EXCEPT !.socks[s] = [rs |-> "CONNECTING", handlers |-> TRUE, url |-> params,
                                 hAfterLoss |-> lostConn],
                   !.conn = s]

\* connectToWS without the await of line 401: the socket is created at once.
connectToWS_NoAwait(p) == newWebSocket(closeCurrentConnection(p), "bare")

\* connectToWS up to its first suspension: with preConnect, the await of line 401.
connectToWS(p) ==
    LET q == closeCurrentConnection(p) IN
    IF hasPreConnect
    THEN IF q.timers + q.pending < MaxAttempts THEN [q EXCEPT !.pending = @ + 1]
         ELSE [q EXCEPT !.ok = FALSE]
    ELSE newWebSocket(q, "bare")

\* connectToWS after props.preConnect() resolved to newParams.
connectToWSResume(p, newParams) == newWebSocket([p EXCEPT !.pending = @ - 1], newParams)

\* ------------------------------------------------------------------ emit
BufferedIDs(p) == {p.buffer[i].msg.MessageID : i \in DOMAIN p.buffer}
SentIDs(p) == {p.sent[i].msg.MessageID : i \in DOMAIN p.sent}

\* uuid() for a data message (StateUpdate, CallFunction): an identifier nobody
\* holds; NoID when the model has none left.
randomID(p) ==
    LET free == MsgIDs \ (p.dedupe \cup received \cup BufferedIDs(p) \cup SentIDs(p)) IN
    IF free = {} THEN NoID ELSE CHOOSE x \in free : \A y \in free : x <= y

\* uuid() for a control message (Subscribe*, Unsubscribe*).  These go from client
\* to server only and no inbound message carries their identifiers, so all of
\* them are one value that is never a member of MsgIDs.
controlID == 0

\* emitMessage with the test of line 517 always true: every message is buffered.
emitMessage_AlwaysBuffer(p, msg) ==
    IF p.conn = 0 THEN p
    ELSE IF msg.MessageID = NoID THEN [p EXCEPT !.ok = FALSE]
    ELSE LET q == [p EXCEPT !.dedupe = @ \cup {msg.MessageID}] IN
         IF Len(q.buffer) < MaxBuf
         THEN [q EXCEPT !.buffer = Append(@, [msg |-> msg, expired |-> FALSE])]
         ELSE [q EXCEPT !.ok = FALSE]

\* emitMessage without line 513: the MessageID is not recorded.
emitMessage_NoDedupe(p, msg) ==
    IF p.conn = 0 THEN p
    ELSE IF msg.MessageID = NoID THEN [p EXCEPT !.ok = FALSE]
    ELSE IF p.socks[p.conn].rs # "OPEN"
    THEN IF Len(p.buffer) < MaxBuf
         THEN [p EXCEPT !.buffer = Append(@, [msg |-> msg, expired |-> FALSE])]
         ELSE [p EXCEPT !.ok = FALSE]
    ELSE Emit([p EXCEPT !.sent = Append(@, [sock |-> p.conn, msg |-> msg, hSeed |-> "none"])],
              "MessageEmitted")

emitMessage(p, msg) ==
    IF p.conn = 0 THEN p
    ELSE IF msg.MessageID = NoID THEN [p EXCEPT !.ok = FALSE]
    ELSE LET q == [p EXCEPT !.dedupe = @ \cup {msg.MessageID}] IN
         IF q.socks[q.conn].rs # "OPEN"
         THEN IF Len(q.buffer) < MaxBuf
              THEN [q EXCEPT !.buffer = Append(@, [msg |-> msg, expired |-> FALSE])]
              ELSE [q EXCEPT !.ok = FALSE]
         ELSE Emit([q EXCEPT !.sent = Append(@, [sock |-> q.conn, msg |-> msg, hSeed |-> "none"])],
                   "MessageEmitted")

Msg(type, room, value, id) ==
    [MessageType |-> type, RoomID |-> room, MessageID |-> id,
     Value |-> value, Args |-> "undefined", ClientID |-> "undefined"]

CallMsg(room, args, id) ==
    [MessageType |-> "CallFunction", RoomID |-> room, MessageID |-> id,
     Value |-> "undefined", Args |-> args, ClientID |-> "undefined"]

PresenceMsg(type, room, client, id) ==
    [MessageType |-> type, RoomID |-> room, MessageID |-> id,
     Value |-> "undefined", Args |-> "undefined", ClientID |-> client]

SubscribeType(kind) == IF kind = "State" THEN "SubscribeState" ELSE "SubscribeFunction"
UnsubscribeType(kind) == IF kind = "State" THEN "UnsubscribeState" ELSE "UnsubscribeFunction"

emitSubscribe(p, e, value) ==
    LET q == emitMessage(p, Msg(SubscribeType(e.kind), e.roomID, value, controlID)) IN
    \* history: tag the message handed to the transport with the seed it stands for
    IF Len(q.sent) > Len(p.sent)
    THEN [q EXCEPT !.sent[Len(q.sent)].hSeed = e.hSeed]
    ELSE q

\* ------------------------------------------------------- socket handlers
RECURSIVE sweep(_, _)
sweep(p, i) ==
    IF i > Len(p.rooms) THEN p
    ELSE sweep(emitSubscribe(p, p.rooms[i], "undefined"), i + 1)

\* history: a sweep that reached emitMessage's send or buffer leaves no seed pending
Swept(p) ==
    IF p.conn = 0 THEN p
    ELSE [p EXCEPT !.rooms = [i \in DOMAIN @ |-> [@[i] EXCEPT !.hSeed = "none"]]]

\* onopen without the sweep of lines 413-422.
onopen_NoSweep(p) == Emit(p, "SocketOpened")

onopen(p) == Emit(Swept(sweep(p, 1)), "SocketOpened")

\* Topic with StateUpdate as the default case of the switch.
Topic_DefaultState(m) == IF m.MessageType = "CallFunction" THEN "Function" ELSE "State"

\* Topic without the message-type prefix of lines 305-311: one topic per room name.
Topic_Untyped(m) == "State"

Topic(m) ==
    IF m.MessageType = "StateUpdate" THEN "State"
    ELSE IF m.MessageType = "CallFunction" THEN "Function"
    ELSE "none"

\* Dispatch passing msg.Value in both cases of the switch (line 465 reading Value).
Dispatch_ValueOnly(p, m) ==
    [p EXCEPT !.invoked =
        {[c |-> c, payload |-> m.Value] : c \in
            {x \in p.listeners : HookSites[x].roomID = m.RoomID
                                 /\ HookSites[x].kind = Topic(m)}}]

\* Dispatch without the cases of lines 469-481.
Dispatch_NoPresence(p, m) ==
    [p EXCEPT !.invoked =
        {[c |-> c, payload |-> IF m.MessageType = "StateUpdate" THEN m.Value ELSE m.Args] : c \in
            {x \in p.listeners : HookSites[x].roomID = m.RoomID
                                 /\ HookSites[x].kind = Topic(m)}}]

\* Dispatch with the emitting setter (lines 668-682) and caller (lines 724-734)
\* registered as the listeners: a listener that runs emits the update again.
Dispatch_EmittingListener(p, m) ==
    IF m.MessageType \in PresenceTypes
    THEN [Emit(p, m.MessageType) EXCEPT
            !.presence = Append(@, [event |-> m.MessageType, roomID |-> m.RoomID,
                                    clientID |-> m.ClientID])]
    ELSE LET q == [p EXCEPT !.invoked =
                    {[c |-> c, payload |-> IF m.MessageType = "StateUpdate" THEN m.Value ELSE m.Args] : c \in
                        {x \in p.listeners : HookSites[x].roomID = m.RoomID
                                             /\ HookSites[x].kind = Topic(m)}}]
         IN IF q.invoked = {} THEN q
            ELSE IF m.MessageType = "StateUpdate"
            THEN emitMessage(q, Msg("StateUpdate", m.RoomID, m.Value, randomID(q)))
            ELSE emitMessage(q, CallMsg(m.RoomID, m.Args, randomID(q)))

\* The switch of lines 455-485.  internalEmitter.emit(topic, payload) reaches
\* every listener registered on the topic; a presence message is mirrored on
\* the public Emitter with its roomID and clientID.
Dispatch(p, m) ==
    IF m.MessageType \in PresenceTypes
    THEN [Emit(p, m.MessageType) EXCEPT
            !.presence = Append(@, [event |-> m.MessageType, roomID |-> m.RoomID,
                                    clientID |-> m.ClientID])]
    ELSE [p EXCEPT !.invoked =
            {[c |-> c, payload |-> IF m.MessageType = "StateUpdate" THEN m.Value ELSE m.Args] : c \in
                {x \in p.listeners : HookSites[x].roomID = m.RoomID
                                     /\ HookSites[x].kind = Topic(m)}}]

onmessage(p, m) ==
    IF m.MessageID \in p.dedupe
    THEN Emit(p, "DuplicateMessageReceived")
    ELSE Dispatch(Emit(p, "MessageReceived"), m)

\* onmessage for event.data that is no message: JSON.parse throws on malformed
\* text (lines 431-439); it returns null for the text null, and line 443 then
\* throws a TypeError that ends the handler.
\* onmessageRaw with the catch block of lines 433-439 empty: the frame is dropped in silence.
onmessageRaw_SilentCatch(p, frame) == p

onmessageRaw(p, frame) ==
    IF frame = "malformed"
    THEN Emit([p EXCEPT !.console = Append(@, "Failed to parse")], "DeserializationError")
    ELSE p

onclose(p) ==
    LET q == Emit(p, "SocketClosed") IN
    IF q.timers + q.pending < MaxAttempts THEN [q EXCEPT !.timers = @ + 1]
    ELSE [q EXCEPT !.ok = FALSE]

\* onerror scheduling a reconnect as onclose does.
onerror_Reconnects(p) == onclose(p)

\* onerror of lines 500-505.
onerror(p) == Emit(p, "SocketError")

\* The truncation callback without line 391: the set is kept.
truncateDedupe_Keeps(p) == p

\* The callback of lines 389-392: msgDedupe.current = new Set().
truncateDedupe(p) == [p EXCEPT !.dedupe = {}]

\* The callback with the test of line 532 ahead of the deadline test of line 522:
\* an open connection gets the message however old it is.
intervalTick_SendFirst(p, i) ==
    LET e == p.buffer[i] IN
    IF OptOpen(p)
    THEN Emit([p EXCEPT
                 !.buffer = RemoveAt(@, i),
                 !.sent = IF p.conn = 0 THEN @
                          ELSE Append(@, [sock |-> p.conn, msg |-> e.msg, hSeed |-> "none"])],
              "MessageEmitted")
    ELSE IF e.expired
    THEN [p EXCEPT !.buffer = RemoveAt(@, i),
                   !.console = Append(@, "did not connect in time, dropping message")]
    ELSE p

\* One run of the setInterval callback of lines 521-543 for buffer entry i.
intervalTick(p, i) ==
    LET e == p.buffer[i] IN
    IF e.expired
    THEN [p EXCEPT !.buffer = RemoveAt(@, i),
                   !.console = Append(@, "did not connect in time, dropping message")]
    ELSE IF OptOpen(p)
    THEN Emit([p EXCEPT
                 !.buffer = RemoveAt(@, i),
                 !.sent = IF p.conn = 0 THEN @
                          ELSE Append(@, [sock |-> p.conn, msg |-> e.msg, hSeed |-> "none"])],
              "MessageEmitted")
    ELSE p

\* ---------------------------------------------------------- room registry
\* subscribeToRoom without the collision test of lines 576-586: Map.set replaces the entry.
subscribeToRoom_NoCollisionCheck(p, roomID, kind, initialValue, c) ==
    LET e == [roomID |-> roomID, kind |-> kind, hOwner |-> c,
              hSeed |-> IF IsOpen(p) \/ kind # "State" THEN "none" ELSE initialValue,
              hStale |-> FALSE]
        q == [p EXCEPT !.rooms =
                IF Has(@, roomID)
                THEN [i \in DOMAIN @ |-> IF @[i].roomID = roomID THEN e ELSE @[i]]
                ELSE Append(@, e)]
    IN Emit(IF OptOpen(q) THEN emitSubscribe(q, e, initialValue) ELSE q, "RoomSubscribed")

\* subscribeToRoom without the test of line 589: the Subscribe is always emitted.
subscribeToRoom_AlwaysEmit(p, roomID, kind, initialValue, c) ==
    IF Has(p.rooms, roomID)
    THEN Emit([p EXCEPT !.console = Append(@, "tried to sub but a subscription already existed")],
              "RoomCollisionPrevented")
    ELSE LET e == [roomID |-> roomID, kind |-> kind, hOwner |-> c,
                   hSeed |-> IF IsOpen(p) \/ kind # "State" THEN "none" ELSE initialValue,
                   hStale |-> FALSE]
             q == [p EXCEPT !.rooms = Append(@, e)]
         IN Emit(emitSubscribe(q, e, initialValue), "RoomSubscribed")

subscribeToRoom(p, roomID, kind, initialValue, c) ==
    IF Has(p.rooms, roomID)
    THEN Emit([p EXCEPT !.console = Append(@, "tried to sub but a subscription already existed")],
              "RoomCollisionPrevented")
    ELSE LET e == [roomID |-> roomID, kind |-> kind, hOwner |-> c,
                   hSeed |-> IF IsOpen(p) \/ kind # "State" THEN "none" ELSE initialValue,
                   hStale |-> FALSE]
             q == [p EXCEPT !.rooms = Append(@, e)]
         IN Emit(IF OptOpen(q) THEN emitSubscribe(q, e, initialValue) ELSE q,
                 "RoomSubscribed")

unsubFromRoom(p, roomID, kind, c) ==
    IF p.conn = 0
    THEN \* history only: the entry, if any, outlives its owner's unsubscribe
         [p EXCEPT !.rooms = [i \in DOMAIN @ |->
             IF @[i].roomID = roomID /\ @[i].hOwner = c /\ lostConn
             THEN [@[i] EXCEPT !.hStale = TRUE] ELSE @[i]]]
    ELSE IF ~Has(p.rooms, roomID)
    THEN [p EXCEPT !.console = Append(@, "tried to unsub without any existing known connections")]
    ELSE LET q == [p EXCEPT !.rooms = Delete(@, roomID)] IN
         Emit(IF IsOpen(q)
              THEN emitMessage(q, Msg(UnsubscribeType(kind), roomID, "undefined", controlID))
              ELSE q,
              "RoomUnsubscribed")

\* internalEmitter.on(internalEmitterID, listener) of lines 704 and 758.
internalEmitterOn(p, c) == [p EXCEPT !.listeners = @ \cup {c}]

\* The cleanup without lines 708 and 762: the listener stays registered.
removeListener_Skipped(p, c) == p

\* internalEmitter.removeListener(internalEmitterID, listener) of lines 708 and 762.
removeListener(p, c) == [p EXCEPT !.listeners = @ \ {c}]

emitSetState(p, roomID, val) == emitMessage(p, Msg("StateUpdate", roomID, val, randomID(p)))

emitCallFunction(p, roomID, args) == emitMessage(p, CallMsg(roomID, args, randomID(p)))

\* setter.noEmit calling the setter itself.
noEmit_Emits(p, c, v) == emitSetState(p, HookSites[c].roomID, v)

\* setter.noEmit (line 690) is setState and caller.noEmit (line 739) is func:
\* the local function of consumer c runs with v, and nothing else does.
noEmit(p, c, v) == [p EXCEPT !.invoked = {[c |-> c, payload |-> v]}]

\* What the peer of socket s derives from the control messages among
\* out[i..]: a Subscribe enters the room with its kind, an Unsubscribe removes it.
RECURSIVE Membership(_, _, _, _)
Membership(view, out, i, s) ==
    IF i > Len(out) THEN view
    ELSE LET m == out[i].msg
             rest == {x \in view : x.roomID # m.RoomID}
         IN Membership(
                IF out[i].sock # s THEN view
                ELSE IF m.MessageType = "SubscribeState"
                THEN rest \cup {[roomID |-> m.RoomID, kind |-> "State"]}
                ELSE IF m.MessageType = "SubscribeFunction"
                THEN rest \cup {[roomID |-> m.RoomID, kind |-> "Function"]}
                ELSE IF m.MessageType \in {"UnsubscribeState", "UnsubscribeFunction"}
                THEN rest
                ELSE view,
                out, i + 1, s)

\* The rooms (with kind) whose Subscribe is among the messages out handed to socket s.
SubscribesOn(out, s) ==
    {[roomID |-> out[i].msg.RoomID,
      kind |-> IF out[i].msg.MessageType = "SubscribeState" THEN "State" ELSE "Function"] :
        i \in {j \in DOMAIN out : /\ out[j].sock = s
                                  /\ out[j].msg.MessageType \in {"SubscribeState",
                                                                 "SubscribeFunction"}}}

\* ------------------------------------------------------------------ steps
\* The handler that ran: its name, the socket or consumer it ran for, the inbound
\* message it was given, a fact about the state it started in (pre, stated at
\* each step), whether conn.current was an OPEN socket when it started, and the
\* params a preConnect promise resolved to (tok).
Act(op, s, c, m, pre) ==
    [op |-> op, s |-> s, c |-> c, msg |-> m, pre |-> pre, open |-> IsOpen(St),
     tok |-> "none"]

Commit(q, a, lost) ==
    /\ q.ok
    /\ conn' = q.conn
    /\ socks' = q.socks
    /\ timers' = q.timers
    /\ pending' = q.pending
    /\ connectedRooms' = q.rooms
    /\ msgDedupe' = q.dedupe
    /\ buffer' = q.buffer
    /\ listeners' = q.listeners
    /\ evts' = q.evts
    /\ sent' = q.sent
    /\ invoked' = q.invoked
    /\ console' = q.console
    /\ presence' = q.presence
    /\ lostConn' = lost
    /\ act' = a
    /\ hServer' = Membership(
                     IF q.conn = conn /\ (conn = 0 \/ socks[conn].rs = "CONNECTING"
                                                   \/ q.socks[conn].rs # "CONNECTING")
                     THEN hServer
                     ELSE {},   \* conn.current is another socket object now
                     q.sent, 1, q.conn)
    /\ hOwed' = (IF a.op = "open" /\ a.pre   \* conn.current has just opened
                  THEN {[roomID |-> connectedRooms[i].roomID, kind |-> connectedRooms[i].kind] :
                            i \in DOMAIN connectedRooms}
                  ELSE IF q.conn = conn /\ (conn = 0 \/ socks[conn].rs = "CONNECTING"
                                                     \/ q.socks[conn].rs # "CONNECTING")
                  THEN hOwed
                  ELSE {})
                 \ SubscribesOn(q.sent, q.conn)
    /\ hEmitted' = IF a.op = "truncate" THEN {}
                   ELSE IF a.op = "emit"
                   THEN hEmitted \cup SentIDs(q) \cup (BufferedIDs(q) \ BufferedIDs(St))
                   ELSE hEmitted
    /\ UNCHANGED << hasPreConnect, dedupeIntervals >>

Init ==
    /\ mounted = FALSE
    /\ hasPreConnect \in BOOLEAN
    /\ conn = 0
    /\ socks = [s \in 1..MaxSock |-> FreeSock]
    /\ timers = 0
    /\ pending = 0
    /\ connectedRooms = << >>
    /\ msgDedupe = {}
    /\ dedupeIntervals = 1   \* the first render has run the body of the component
    /\ buffer = << >>
    /\ listeners = {}
    /\ received = {}
    /\ hEmitted = {}
    /\ hServer = {}
    /\ hOwed = {}
    /\ lostConn = FALSE
    /\ act = [op |-> "init", s |-> 0, c |-> 0, msg |-> NoMsg, pre |-> FALSE, open |-> FALSE,
              tok |-> "none"]
    /\ evts = << >>
    /\ sent = << >>
    /\ invoked = {}
    /\ console = << >>
    /\ presence = << >>

\* The effect of lines 375-383.
ProviderMount ==
    /\ ~mounted
    /\ mounted' = TRUE
    /\ Commit(IF conn = 0 \/ socks[conn].rs \in {"CLOSING", "CLOSED"} THEN connectToWS(St) ELSE St,
              Act("providerMount", 0, 0, NoMsg, FALSE), lostConn)
    /\ UNCHANGED received

\* The cleanup of lines 384-386.
ProviderUnmount ==
    /\ mounted
    /\ mounted' = FALSE
    /\ Commit(closeCurrentConnection(St), Act("providerUnmount", 0, 0, NoMsg, FALSE), lostConn)
    /\ UNCHANGED received

\* The reconnect timer of lines 495-498 fires.
ReconnectTimer ==
    /\ timers > 0
    /\ Commit(connectToWS([St EXCEPT !.timers = @ - 1]),
              Act("reconnect", 0, 0, NoMsg, FALSE), lostConn)
    /\ UNCHANGED << mounted, received >>

\* props.preConnect() resolves to tok and connectToWS continues at line 402.
PreConnectResolve(tok) ==
    /\ pending > 0
    /\ Commit(connectToWSResume(St, tok),
              [Act("connect", 0, 0, NoMsg, FALSE) EXCEPT !.tok = tok], lostConn)
    /\ UNCHANGED << mounted, received >>

\* props.preConnect() rejects: connectToWS throws at line 401 and nothing catches it.
PreConnectReject ==
    /\ pending > 0
    /\ Commit([St EXCEPT !.pending = @ - 1], Act("connectFailed", 0, 0, NoMsg, FALSE), lostConn)
    /\ UNCHANGED << mounted, received >>

\* The transport of socket s opens: readyState OPEN, then onopen.
SocketOpen(s) ==
    /\ socks[s].rs = "CONNECTING"
    /\ Commit(onopen([St EXCEPT !.socks[s].rs = "OPEN"]),
              Act("open", s, 0, NoMsg, conn = s),
              IF conn = s THEN FALSE ELSE lostConn)
    /\ UNCHANGED << mounted, received >>

\* The transport of socket s is gone (lost, failed, or closed by close()):
\* readyState CLOSED, then the close event.
SocketClose(s) ==
    /\ socks[s].rs \in {"CONNECTING", "OPEN", "CLOSING"}
    /\ LET p == [St EXCEPT !.socks[s] = IF conn = s THEN [@ EXCEPT !.rs = "CLOSED"] ELSE FreeSock]
       IN Commit(IF socks[s].handlers THEN onclose(p) ELSE p,
                 Act("close", s, 0, NoMsg, socks[s].rs = "CLOSING"),
                 IF socks[s].handlers THEN TRUE ELSE lostConn)
    /\ UNCHANGED << mounted, received >>

\* The transport of socket s reports an error.
SocketError(s) ==
    /\ socks[s].rs \in {"CONNECTING", "OPEN"}
    /\ socks[s].handlers
    /\ Commit(onerror(St), Act("error", s, 0, NoMsg, FALSE), lostConn)
    /\ UNCHANGED << mounted, received >>

\* A frame that decodes to message m arrives on socket s.
SocketMessage(s, m) ==
    /\ socks[s].rs = "OPEN"
    /\ socks[s].handlers
    /\ Commit(onmessage(St, m),
              Act("message", s, 0, m, m.MessageID \in msgDedupe \cup received), lostConn)
    /\ received' = received \cup {m.MessageID}
    /\ UNCHANGED mounted

\* A frame that is no message arrives on socket s.
SocketFrame(s, frame) ==
    /\ socks[s].rs = "OPEN"
    /\ socks[s].handlers
    /\ Commit(onmessageRaw(St, frame), Act("frame", s, 0, NoMsg, frame = "malformed"), lostConn)
    /\ UNCHANGED << mounted, received >>

\* The provider renders again (its parent re-rendered or its props changed): the
\* body of the component runs, and line 389 starts one more interval; nothing
\* in the component clears an interval.
ProviderRender ==
    /\ mounted
    /\ dedupeIntervals < MaxIntervals
    /\ dedupeIntervals' = dedupeIntervals + 1
    /\ act' = Act("render", 0, 0, NoMsg, FALSE)
    /\ evts' = << >>
    /\ sent' = << >>
    /\ invoked' = {}
    /\ console' = << >>
    /\ presence' = << >>
    /\ UNCHANGED << mounted, hasPreConnect, conn, socks, timers, pending, connectedRooms,
                    msgDedupe, buffer, listeners, received, hEmitted, hServer, hOwed, lostConn >>

\* One of the intervals of lines 389-392 fires.
TruncateDedupe ==
    /\ dedupeIntervals > 0
    /\ Commit(truncateDedupe(St), Act("truncate", 0, 0, NoMsg, FALSE), lostConn)
    /\ received' = {}
    /\ UNCHANGED mounted

\* The effects of lines 692-704 and 746-758: a consumer mounts.
ConsumerMount(c) ==
    /\ c \notin listeners
    /\ LET h == HookSites[c]
           q == subscribeToRoom(St, h.roomID, h.kind, h.initialValue, c)
       IN Commit(internalEmitterOn(q, c),
                 Act("subscribe", 0, c, NoMsg, Has(connectedRooms, h.roomID)), lostConn)
    /\ UNCHANGED << mounted, received >>

\* The cleanups of lines 706-709 and 760-763: a consumer unmounts.
ConsumerUnmount(c) ==
    /\ c \in listeners
    /\ LET h == HookSites[c]
           q == unsubFromRoom(St, h.roomID, h.kind, c)
       IN Commit(removeListener(q, c),
                 Act("unsub", 0, c, NoMsg, Has(connectedRooms, h.roomID)), lostConn)
    /\ UNCHANGED << mounted, received >>

\* A mounted consumer calls its setter (lines 668-682) or its caller (lines 724-734).
ConsumerEmit(c, v) ==
    /\ c \in listeners
    /\ LET h == HookSites[c] IN
       Commit(IF h.kind = "State" THEN emitSetState(St, h.roomID, v)
              ELSE emitCallFunction(St, h.roomID, v),
              Act("emit", 0, c,
                  IF h.kind = "State" THEN Msg("StateUpdate", h.roomID, v, randomID(St))
                  ELSE CallMsg(h.roomID, v, randomID(St)),
                  FALSE),
              lostConn)
    /\ UNCHANGED << mounted, received >>

\* A mounted consumer calls setter.noEmit(v) or caller.noEmit(v).
ConsumerNoEmit(c, v) ==
    /\ c \in listeners
    /\ Commit(noEmit(St, c, v), Act("noEmit", 0, c, NoMsg, FALSE), lostConn)
    /\ UNCHANGED << mounted, received >>

\* The interval of buffer entry i fires.
BufferTick(i) ==
    /\ i \in DOMAIN buffer
    /\ Commit(intervalTick(St, i), Act("tick", 0, 0, buffer[i].msg, buffer[i].expired), lostConn)
    /\ UNCHANGED << mounted, received >>

\* new Date().getTime() passes started + maxBufferMS for buffer entry i; the
\* entries before it were started earlier and have passed theirs.
DeadlinePass(i) ==
    /\ i \in DOMAIN buffer
    /\ ~buffer[i].expired
    /\ \A j \in 1..(i - 1) : buffer[j].expired
    /\ Commit([St EXCEPT !.buffer[i].expired = TRUE], Act("deadline", 0, 0, NoMsg, FALSE),
              lostConn)
    /\ UNCHANGED << mounted, received >>

InMsgs ==
    {IF t = "CallFunction" THEN CallMsg(r, v, id) ELSE Msg(t, r, v, id) :
        t \in InTypes \cup UnknownTypes, r \in Rooms, v \in InValues, id \in MsgIDs}
    \cup {PresenceMsg(t, r, k, id) :
             t \in PresenceTypes, r \in Rooms, k \in ClientIDs, id \in MsgIDs}

\* The connection over the whole life of the provider: mount, cleanup, re-run;
\* T are the params the preConnect promises resolve to.
ConnNextWith(T) ==
    \/ ProviderMount
    \/ ProviderUnmount
    \/ ReconnectTimer
    \/ \E tok \in T : PreConnectResolve(tok)
    \/ PreConnectReject
    \/ \E s \in 1..MaxSock : SocketOpen(s)
    \/ \E s \in 1..MaxSock : SocketClose(s)

ConnNext == ConnNextWith({"t1"})

\* The connection of a provider that stays mounted.
MountedNext ==
    \/ ProviderMount
    \/ ReconnectTimer
    \/ PreConnectResolve("t1")
    \/ PreConnectReject
    \/ \E s \in 1..MaxSock : SocketOpen(s)
    \/ \E s \in 1..MaxSock : SocketClose(s)

RoomNext(C) ==
    \/ \E c \in C : ConsumerMount(c)
    \/ \E c \in C : ConsumerUnmount(c)

BufferNext ==
    \/ \E i \in 1..MaxBuf : BufferTick(i)
    \/ \E i \in 1..MaxBuf : DeadlinePass(i)

InboundNext(T, R) ==
    \E s \in 1..MaxSock, m \in {x \in InMsgs : x.MessageType \in T /\ x.RoomID \in R} :
        SocketMessage(s, m)

ErrorNext == \E s \in 1..MaxSock : SocketError(s)

NoEmitNext(C) == \E c \in C, v \in InValues : ConsumerNoEmit(c, v)

RawNext == \E s \in 1..MaxSock, frame \in RawFrames : SocketFrame(s, frame)

EmitNext(C) == \E c \in C, v \in InValues : ConsumerEmit(c, v)

\* The connection alone, with the provider's effect cleaned up and re-run.
SpecConn == Init /\ [][ConnNext]_vars

\* The room registry under a provider that stays mounted.
SpecRooms == Init /\ [][MountedNext \/ RoomNext({1, 2, 3, 4})]_vars

\* The room registry with the provider's effect cleaned up and re-run.
SpecRace == Init /\ [][ConnNext \/ RoomNext({1}) \/ BufferNext]_vars

\* Inbound traffic for room A and its consumers.
SpecInbound ==
    Init /\ [][MountedNext \/ RoomNext({1, 2}) \/ InboundNext(InTypes, {"A"})
                 \/ RawNext \/ TruncateDedupe]_vars

\* Inbound traffic for room A with a state consumer and a function consumer.
SpecDispatch ==
    Init /\ [][MountedNext \/ RoomNext({1, 4}) \/ InboundNext(InTypes, {"A"})]_vars

\* One consumer's outbound traffic and its echoes.
SpecEcho ==
    Init /\ [][MountedNext \/ RoomNext({1}) \/ EmitNext({1}) \/ BufferNext
                 \/ InboundNext({"StateUpdate"}, {"A"}) \/ TruncateDedupe]_vars

\* Outbound traffic of one consumer.
SpecBuffer == Init /\ [][MountedNext \/ RoomNext({1}) \/ EmitNext({1}) \/ BufferNext]_vars

\* One consumer's outbound and local calls, with transport errors.
SpecLocal ==
    Init /\ [][MountedNext \/ RoomNext({1}) \/ EmitNext({1}) \/ BufferNext
                 \/ ErrorNext \/ NoEmitNext({1})]_vars

\* Presence and unknown inbound traffic for room A.
SpecPresence ==
    Init /\ [][MountedNext \/ RoomNext({1})
                 \/ InboundNext(PresenceTypes \cup UnknownTypes, {"A"})]_vars

\* The connection alone, with preConnect promises resolving to different params.
SpecHook == Init /\ [][ConnNextWith(Tokens)]_vars

\* The connection and the truncation intervals of a provider that renders again.
SpecRender == Init /\ [][ConnNext \/ ProviderRender \/ TruncateDedupe]_vars

\* ------------------------------------------------------------------ claims

\* C1: an inbound message that decodes and whose MessageID has been seen since
\* the last truncation (received inbound or emitted locally) is dropped and no
\* room listener is invoked for it: the same StateUpdate delivered twice with no
\* truncation in between invokes the room's listener once, not twice.
\* Here act.pre is "the MessageID was in msgDedupe or in received".
C1_SeenMessageIsDropped ==
    (act.op = "message" /\ act.pre) => invoked = {}

\* C5: a second consumer mounting on the room name of a still-mounted consumer
\* is rejected, not merged: an inbound StateUpdate/CallFunction for the room
\* reaches only the listener of the consumer that holds the registry entry.
C5_OnlyFirstConsumerReceives ==
    (/\ act.op = "message"
     /\ Has(connectedRooms, act.msg.RoomID)
     /\ Entry(connectedRooms, act.msg.RoomID).hOwner \in listeners)
        => \A x \in invoked : x.c = Entry(connectedRooms, act.msg.RoomID).hOwner

\* The Subscribe messages a sweep over the registry hands to socket s: one per
\* entry, in the registry's order, kind-tagged from the entry.
IsSweepOn(s) ==
    /\ Len(sent) = Len(connectedRooms)
    /\ \A i \in DOMAIN sent :
        /\ sent[i].sock = s
        /\ sent[i].msg.RoomID = connectedRooms[i].roomID
        /\ sent[i].msg.MessageType = SubscribeType(connectedRooms[i].kind)

\* C2: after a close -> reconnect -> open cycle the open handler sends, on the
\* new connection, exactly one Subscribe per registry entry (SubscribeState for
\* a State room, SubscribeFunction for a Function room), no room twice.
C2_OneSubscribePerRoomOnReopen ==
    (act.op = "open" /\ socks[act.s].hAfterLoss) => IsSweepOn(act.s)

\* C3: a room whose consumer called unsubFromRoom between the loss of the
\* connection and the next open is absent from the registry when the connection
\* opens (so the sweep sends no Subscribe for it).  An entry is hStale when its
\* owner unsubscribed after the loss; the rooms no mounted consumer names are
\* the ones nobody subscribed again.
C3_UnsubscribedRoomIsGoneAtOpen ==
    (act.op = "open" /\ act.pre)
        => \A i \in DOMAIN connectedRooms :
              ~(/\ connectedRooms[i].hStale
                /\ \A c \in listeners : HookSites[c].roomID # connectedRooms[i].roomID)

\* C4: a second subscribeToRoom(R, kind) while R is in the registry leaves the
\* registry unchanged (the entry keeps its kind), sends and buffers nothing,
\* emits no RoomSubscribed and exactly one RoomCollisionPrevented.
C4_SecondSubscribeIsRejected ==
    [][(act'.op = "subscribe" /\ Has(connectedRooms, HookSites[act'.c].roomID))
          => (/\ connectedRooms' = connectedRooms
              /\ sent' = << >>
              /\ buffer' = buffer
              /\ evts' = << "RoomCollisionPrevented" >>)]_vars

\* A consumer of another kind has just tried to subscribe to a room that was
\* in the registry.
C4_Witness ==
    /\ act.op = "subscribe"
    /\ act.pre
    /\ Has(connectedRooms, HookSites[act.c].roomID)
    /\ Entry(connectedRooms, HookSites[act.c].roomID).kind # HookSites[act.c].kind

\* C6: a room subscribed as State with initial value V before the connection
\* is open gets, when the connection opens, a SubscribeState carrying Value = V.
\* A sent message's hSeed is the initialValue of its room's subscribeToRoom call
\* when no Subscribe has carried it yet.
C6_DeferredSubscribeCarriesSeed ==
    (act.op = "open" /\ act.pre)
        => \A i \in DOMAIN sent :
              sent[i].hSeed # "none" => sent[i].msg.Value = sent[i].hSeed

LiveSocks == {s \in DOMAIN socks : socks[s].handlers /\ socks[s].rs \in {"CONNECTING", "OPEN"}}

\* C7: with the provider mounted, a lost connection is always retried: while no
\* connection has opened since the loss, a reconnect timer is pending, a connect
\* attempt is awaiting its pre-connect hook, or a transport exists whose close
\* will schedule the next attempt; also after a failed pre-connect hook.
C7_LossIsAlwaysRetried ==
    (mounted /\ lostConn) => (timers > 0 \/ pending > 0 \/ LiveSocks # {})

\* C8: at most one transport connection with live event handlers exists.
C8_AtMostOneLiveSocket == Cardinality(LiveSocks) <= 1

\* C9: a connection torn down by closeCurrentConnection has its handlers removed
\* before it is closed, so its close emits no SocketClosed and schedules no
\* reconnect.  Here act.pre is "the socket was CLOSING", the state close() left it in.
C9_SupersededCloseIsSilent ==
    [][/\ \A s \in DOMAIN socks : socks'[s].rs = "CLOSING" => ~socks'[s].handlers
       /\ (act'.op = "close" /\ act'.pre)
             => (evts' = << >> /\ timers' = timers /\ pending' = pending /\ conn' = conn)]_vars

\* The close event of a torn-down connection has been delivered.
C9_Witness == act.op = "close" /\ act.pre

\* C10: a message emitted while disconnected whose connection never opens is
\* never handed to the transport, and its polling loop ends only on the first
\* poll after the deadline, with one error report.  Here act.pre is "the
\* deadline of the polled entry has passed" and act.open "conn.current was an
\* OPEN socket".
C10_UnsentMessageEndsWithError ==
    (act.op = "tick" /\ ~act.open)
        => (/\ sent = << >>
            /\ evts = << >>
            /\ Len(console) = IF act.pre THEN 1 ELSE 0)

\* C11: a message passed to emit while conn.current is not an OPEN socket (a
\* socket in another state, or no socket at all) becomes a buffer entry: it is
\* not handed to the transport by the call, and it is not lost.  Here act.msg
\* is the message of the emit call and act.open "conn.current was an OPEN socket".
C11_UnsentMessageIsBuffered ==
    (mounted /\ act.op = "emit" /\ ~act.open)
        => (/\ sent = << >>
            /\ \E i \in DOMAIN buffer : buffer[i].msg = act.msg /\ ~buffer[i].expired)

\* C12: an emit call made while conn.current is an OPEN socket hands its message
\* to that socket inside the call, hands over nothing else, buffers nothing and
\* emits exactly one MessageEmitted; as the calls are steps of one event loop,
\* two such calls send in the order of the calls.
C12_OpenEmitSendsAtOnce ==
    (act.op = "emit" /\ act.open)
        => (/\ Len(sent) = 1
            /\ sent[1].msg = act.msg
            /\ sent[1].sock = conn
            /\ evts = << "MessageEmitted" >>
            /\ \A i \in DOMAIN buffer : buffer[i].msg # act.msg)

\* The second of two emit calls has just run on an open connection.
C12_Witness ==
    /\ act.op = "emit"
    /\ act.open
    /\ act.msg.MessageID = 2
    /\ 1 \in hEmitted
    /\ Len(sent) = 1

\* C13: an inbound message whose MessageID is that of a data message this client
\* sent or buffered through emitMessage since the last truncation (hEmitted) is
\* dropped with DuplicateMessageReceived and reaches no room listener.
C13_SelfEchoIsDropped ==
    (act.op = "message" /\ act.msg.MessageID \in hEmitted)
        => (evts = << "DuplicateMessageReceived" >> /\ invoked = {})

\* The echo of a StateUpdate this client emitted has arrived while the room's
\* listener was registered.
C13_Witness ==
    /\ act.op = "message"
    /\ act.msg.MessageID \in hEmitted
    /\ \E c \in listeners :
          HookSites[c].roomID = act.msg.RoomID /\ HookSites[c].kind = "State"

\* C14: an inbound StateUpdate with a MessageID not seen before invokes every
\* state listener registered for its room exactly once, with the message's
\* Value; an inbound CallFunction invokes every function listener registered for
\* its room exactly once, with the message's Args.
C14_ListenerGetsPayloadOnce ==
    (act.op = "message" /\ ~act.pre)
        => \A c \in listeners :
              /\ (/\ act.msg.MessageType = "StateUpdate"
                  /\ HookSites[c].roomID = act.msg.RoomID
                  /\ HookSites[c].kind = "State")
                    => {x \in invoked : x.c = c} = {[c |-> c, payload |-> act.msg.Value]}
              /\ (/\ act.msg.MessageType = "CallFunction"
                  /\ HookSites[c].roomID = act.msg.RoomID
                  /\ HookSites[c].kind = "Function")
                    => {x \in invoked : x.c = c} = {[c |-> c, payload |-> act.msg.Args]}

\* A new CallFunction for room A has arrived and the function listener of
\* consumer 4 has run with its Args.
C14_Witness ==
    /\ act.op = "message"
    /\ ~act.pre
    /\ act.msg.MessageType = "CallFunction"
    /\ 4 \in listeners
    /\ [c |-> 4, payload |-> act.msg.Args] \in invoked

\* C15: an inbound StateUpdate for room R invokes no function listener and an
\* inbound CallFunction for R invokes no state listener, whatever is registered
\* for R.
C15_OppositeTypeIsIgnored ==
    act.op = "message"
        => \A x \in invoked :
              /\ act.msg.MessageType = "StateUpdate" => HookSites[x.c].kind = "State"
              /\ act.msg.MessageType = "CallFunction" => HookSites[x.c].kind = "Function"

\* A new StateUpdate for room A has arrived while a function listener and a
\* state listener were registered for A: only the state listener ran.
C15_Witness ==
    /\ act.op = "message"
    /\ ~act.pre
    /\ act.msg.MessageType = "StateUpdate"
    /\ {1, 4} \subseteq listeners
    /\ invoked = {[c |-> 1, payload |-> act.msg.Value]}

\* C16: MessageReceived is deduplicated: a decoded inbound message causes
\* exactly one event, DuplicateMessageReceived when its MessageID has been seen
\* since the last truncation and MessageReceived otherwise.  Here act.pre is
\* "the MessageID was in msgDedupe or in received".
C16_MessageReceivedIsDeduplicated ==
    act.op = "message"
        => evts = IF act.pre THEN << "DuplicateMessageReceived" >> ELSE << "MessageReceived" >>

\* C17: subscribeToRoom(R, kind, seed) for a room absent from the registry
\* appends the entry with that kind and emits RoomSubscribed exactly once; with
\* conn.current an OPEN socket it hands that socket exactly one Subscribe of the
\* matching kind with Value = seed inside the call; otherwise it sends nothing,
\* and in both cases it creates no buffer entry.
C17_SubscribeOfNewRoom ==
    [][(act'.op = "subscribe" /\ ~act'.pre)
          => LET h == HookSites[act'.c] IN
             /\ Len(connectedRooms') = Len(connectedRooms) + 1
             /\ SubSeq(connectedRooms', 1, Len(connectedRooms)) = connectedRooms
             /\ connectedRooms'[Len(connectedRooms')].roomID = h.roomID
             /\ connectedRooms'[Len(connectedRooms')].kind = h.kind
             /\ Cardinality({i \in DOMAIN evts' : evts'[i] = "RoomSubscribed"}) = 1
             /\ buffer' = buffer
             /\ IF act'.open
                THEN /\ Len(sent') = 1
                     /\ sent'[1].sock = conn
                     /\ sent'[1].msg.MessageType = SubscribeType(h.kind)
                     /\ sent'[1].msg.RoomID = h.roomID
                     /\ sent'[1].msg.Value = h.initialValue
                ELSE sent' = << >>]_vars

\* useSharedState("A", "v1") has just subscribed a new room on an open connection.
C17_Witness ==
    /\ act.op = "subscribe"
    /\ ~act.pre
    /\ act.open
    /\ HookSites[act.c].kind = "State"
    /\ Len(sent) = 1

\* C18: unsubFromRoom(R, kind) for a room in the registry removes the entry and
\* emits RoomUnsubscribed exactly once in every connection state; it sends one
\* Unsubscribe of the matching kind when conn.current is an OPEN socket and
\* nothing otherwise.  Here act.pre is "R was in the registry".
C18_UnsubscribeRemovesRoom ==
    (mounted /\ act.op = "unsub" /\ act.pre)
        => LET h == HookSites[act.c] IN
           /\ ~Has(connectedRooms, h.roomID)
           /\ Cardinality({i \in DOMAIN evts : evts[i] = "RoomUnsubscribed"}) = 1
           /\ IF act.open
              THEN /\ Len(sent) = 1
                   /\ sent[1].msg.MessageType = UnsubscribeType(h.kind)
                   /\ sent[1].msg.RoomID = h.roomID
              ELSE sent = << >>

\* C19: unsubFromRoom(R) for a room not in the registry is reported as a logic
\* error (one console.error) and has no other effect: no event, nothing sent.
\* Here act.pre is "R was in the registry".
C19_UnknownUnsubscribeIsReported ==
    (mounted /\ act.op = "unsub" /\ ~act.pre)
        => (/\ Len(console) = 1
            /\ evts = << >>
            /\ sent = << >>)

\* C20: a frame on which JSON.parse throws causes exactly one
\* DeserializationError and nothing else: no MessageReceived, no
\* DuplicateMessageReceived, no listener invoked, nothing sent, and msgDedupe,
\* the registry, the connection and the pending reconnects are unchanged.
\* Here act.pre is "the frame was malformed".
C20_MalformedFrameIsDropped ==
    [][(act'.op = "frame" /\ act'.pre)
          => (/\ evts' = << "DeserializationError" >>
              /\ invoked' = {}
              /\ sent' = << >>
              /\ msgDedupe' = msgDedupe
              /\ connectedRooms' = connectedRooms
              /\ buffer' = buffer
              /\ conn' = conn
              /\ socks' = socks
              /\ timers' = timers
              /\ pending' = pending)]_vars

\* A malformed frame has arrived while a listener was registered.
C20_Witness ==
    /\ act.op = "frame"
    /\ act.pre
    /\ listeners # {}
    /\ evts = << "DeserializationError" >>

\* C21: a buffered message for room R is not cancelled by unsubscribing R: with
\* no consumer of R mounted any more, a poll before the deadline either leaves
\* the message buffered or hands it to the transport.  Here act.msg is the
\* polled message and act.pre "its deadline has passed".
C21_UnsubscribeKeepsBufferedMessage ==
    (/\ act.op = "tick"
     /\ ~act.pre
     /\ \A c \in listeners : HookSites[c].roomID # act.msg.RoomID)
        => \/ \E i \in DOMAIN buffer : buffer[i].msg = act.msg
           \/ \E i \in DOMAIN sent : sent[i].msg = act.msg /\ sent[i].sock = conn

\* C22: the unmount of a consumer deregisters its internal listener in the same
\* step, and an inbound StateUpdate/CallFunction invokes registered listeners
\* only: after the unmount no inbound message for the room invokes a listener
\* of the unmounted consumer.
C22_UnmountDeregistersListener ==
    [][/\ act'.op = "unsub" => act'.c \notin listeners'
       /\ act'.op = "message" => \A x \in invoked' : x.c \in listeners]_vars

\* A new StateUpdate for room A has arrived after consumer 1 unmounted; the
\* room is still in the registry (it was unmounted with no connection object),
\* and no listener ran.
C22_Witness ==
    /\ act.op = "message"
    /\ ~act.pre
    /\ act.msg.MessageType = "StateUpdate"
    /\ 1 \notin listeners
    /\ Has(connectedRooms, act.msg.RoomID)
    /\ Entry(connectedRooms, act.msg.RoomID).hOwner = 1
    /\ invoked = {}

\* C23: a truncation clears the whole dedupe set.  An inbound message is
\* suppressed exactly when its MessageID was recorded by an emit since the last
\* truncation (hEmitted); with an ID recorded only before that truncation it is
\* processed: MessageReceived, and the listeners of its room are invoked.
C23_TruncationForgetsEveryID ==
    /\ act.op = "truncate" => msgDedupe = {}
    /\ act.op = "message"
          => IF act.msg.MessageID \in hEmitted
             THEN evts = << "DuplicateMessageReceived" >> /\ invoked = {}
             ELSE /\ evts = << "MessageReceived" >>
                  /\ \A c \in listeners :
                        (HookSites[c].roomID = act.msg.RoomID /\ HookSites[c].kind = "State")
                            => [c |-> c, payload |-> act.msg.Value] \in invoked

\* An inbound StateUpdate carries the MessageID of a message this client
\* emitted before the last truncation (the message is still in the buffer, so
\* its ID was recorded, and no emit has recorded it since): it is processed.
C23_Witness ==
    /\ act.op = "message"
    /\ act.msg.MessageID \in BufferedIDs(St)
    /\ act.msg.MessageID \notin hEmitted
    /\ evts = << "MessageReceived" >>
    /\ invoked # {}

\* C24: a transport error only emits SocketError: the connection, the sockets,
\* the pending reconnects, the registry, the dedupe set and the buffer are
\* unchanged and nothing is sent; a reconnect timer is started by a close
\* event only.
C24_ErrorOnlyEmitsSocketError ==
    [][/\ act'.op = "error"
            => (/\ evts' = << "SocketError" >>
                /\ sent' = << >>
                /\ UNCHANGED << conn, socks, timers, pending, connectedRooms, msgDedupe, buffer >>)
       /\ timers' > timers => act'.op = "close"]_vars

\* An error has been reported on a socket while a room was registered and a
\* message was buffered.
C24_Witness ==
    /\ act.op = "error"
    /\ connectedRooms # << >>
    /\ buffer # << >>
    /\ evts = << "SocketError" >>

\* C27: setter.noEmit / caller.noEmit runs the local function and emits nothing:
\* no message is sent or buffered, no ID is added to the dedupe set and no event
\* is emitted, in any connection state.
C27_NoEmitStaysLocal ==
    [][act'.op = "noEmit"
          => (/\ \E v \in InValues : invoked' = {[c |-> act'.c, payload |-> v]}
              /\ sent' = << >>
              /\ evts' = << >>
              /\ UNCHANGED << buffer, msgDedupe, conn, socks, connectedRooms >>)]_vars

\* setter.noEmit has just been called on an open connection.
C27_Witness ==
    /\ act.op = "noEmit"
    /\ act.open
    /\ invoked # {}
    /\ sent = << >>

\* C25: an inbound message of a type the switch has no case for, with a
\* MessageID that is not in the dedupe set, emits MessageReceived and nothing
\* else: no listener is invoked, no presence event is emitted, nothing is sent,
\* and the registry and the connection are unchanged.
C25_UnknownTypeIsIgnored ==
    [][(/\ act'.op = "message"
        /\ act'.msg.MessageType \in UnknownTypes
        /\ act'.msg.MessageID \notin msgDedupe)
          => (/\ evts' = << "MessageReceived" >>
              /\ invoked' = {}
              /\ presence' = << >>
              /\ sent' = << >>
              /\ UNCHANGED << connectedRooms, conn, socks, timers, pending, buffer >>)]_vars

\* A message of an unknown type has arrived for room A while a listener of A
\* was registered.
C25_Witness ==
    /\ act.op = "message"
    /\ act.msg.MessageType \in UnknownTypes
    /\ \E c \in listeners : HookSites[c].roomID = act.msg.RoomID
    /\ evts = << "MessageReceived" >>

\* C28: an inbound RoommateSubscribed / RoommateUnsubscribed that is not a
\* duplicate emits MessageReceived and then the presence event of the same
\* name, carrying the message's RoomID and ClientID; no listener is invoked and
\* the registry is unchanged.
C28_PresenceIsMirrored ==
    [][(/\ act'.op = "message"
        /\ act'.msg.MessageType \in PresenceTypes
        /\ ~act'.pre)
          => (/\ evts' = << "MessageReceived", act'.msg.MessageType >>
              /\ presence' = << [event |-> act'.msg.MessageType,
                                 roomID |-> act'.msg.RoomID,
                                 clientID |-> act'.msg.ClientID] >>
              /\ invoked' = {}
              /\ connectedRooms' = connectedRooms)]_vars

\* RoommateUnsubscribed of client k2 for room A has arrived while a listener of
\* A was registered.
C28_Witness ==
    /\ act.op = "message"
    /\ ~act.pre
    /\ act.msg.MessageType = "RoommateUnsubscribed"
    /\ act.msg.ClientID = "k2"
    /\ listeners # {}
    /\ Len(presence) = 1

\* C26: with a pre-connect hook, a transport is created only by the step in
\* which a hook promise resolves, and its url carries the params that promise
\* resolved to; every reconnect attempt starts by calling the hook again, and
\* creates no transport itself.  Without a hook the url is props.api alone.
C26_HookIsAwaitedBeforeTransport ==
    [][/\ \A s \in DOMAIN socks :
            (socks'[s].rs = "CONNECTING" /\ socks[s].rs # "CONNECTING")
                => IF hasPreConnect
                   THEN /\ act'.op = "connect"
                        /\ pending' = pending - 1
                        /\ socks'[s].url = act'.tok
                        /\ act'.tok \in Tokens
                   ELSE socks'[s].url = "bare"
       /\ (hasPreConnect /\ act'.op = "reconnect")
            => /\ pending' = pending + 1
               /\ \A s \in DOMAIN socks : socks'[s].rs = "CONNECTING" => socks[s].rs = "CONNECTING"]_vars

\* The hook of a reconnect attempt has resolved to t2 and the new transport's
\* url carries t2.
C26_Witness ==
    /\ act.op = "connect"
    /\ act.tok = "t2"
    /\ conn # 0
    /\ socks[conn].url = "t2"
    /\ socks[conn].hAfterLoss
    /\ socks[conn].rs = "CONNECTING"

\* C29: whenever conn.current is an OPEN socket whose open handler has run, the
\* rooms whose last control message on that socket is a Subscribe, with the kind
\* of that Subscribe, are exactly the room -> kind registry.
C29_ServerViewEqualsRegistry ==
    (conn # 0 /\ socks[conn].rs = "OPEN")
        => hServer = {[roomID |-> connectedRooms[i].roomID, kind |-> connectedRooms[i].kind] :
                         i \in DOMAIN connectedRooms}

\* C30: a registry entry is removed, and an Unsubscribe for its room is sent,
\* only by the unmount of the consumer that created it: while that consumer is
\* mounted, the unmount of another consumer of the same room name (one whose
\* subscribeToRoom was rejected) changes neither the registry nor sends anything.
C30_OnlyTheOwnerUnsubscribes ==
    [][(/\ act'.op = "unsub"
        /\ Has(connectedRooms, HookSites[act'.c].roomID)
        /\ Entry(connectedRooms, HookSites[act'.c].roomID).hOwner # act'.c
        /\ Entry(connectedRooms, HookSites[act'.c].roomID).hOwner \in listeners')
          => (/\ \E i \in DOMAIN connectedRooms' :
                    connectedRooms'[i].roomID = HookSites[act'.c].roomID
              /\ sent' = << >>)]_vars

\* C31: every MessageEmitted stands for a message handed to WebSocket.send on an
\* OPEN connection, on the direct path and on the polling path alike: a handler
\* emits as many MessageEmitted events as it hands messages to the transport,
\* and each of those goes to conn.current while it is OPEN.
C31_EmittedMeansSent ==
    /\ Cardinality({i \in DOMAIN evts : evts[i] = "MessageEmitted"}) = Len(sent)
    /\ \A i \in DOMAIN sent : sent[i].sock = conn /\ socks[conn].rs = "OPEN"

\* C32: after the provider's cleanup no transport connection is created: a
\* reconnect timer that fires, or a connectToWS that resumes from its
\* pre-connect hook, while the effect is cleaned up leaves conn.current null.
C32_NoSocketAfterUnmount ==
    (~mounted /\ act.op \in {"reconnect", "connect"}) => conn = 0

\* C33: handling an inbound message never makes this client emit.  The
\* listeners the hooks register are setState (line 704) and callerWrapper
\* (line 758), which apply the payload locally; the step that handles an inbound
\* message hands nothing to the transport, starts no polling loop and reports
\* no MessageEmitted.
C33_ReceiveNeverEmits ==
    [][act'.op = "message"
        => (/\ sent' = << >>
            /\ buffer' = buffer
            /\ \A i \in DOMAIN evts' : evts'[i] # "MessageEmitted")]_vars

\* An inbound CallFunction has just reached the function listener of its room
\* on the open connection, with the state listener of the room registered too.
C33_Witness ==
    /\ act.op = "message"
    /\ act.open
    /\ act.msg.MessageType = "CallFunction"
    /\ \E x \in invoked : HookSites[x.c].kind = "Function"
    /\ 1 \in listeners

\* C34: the StateUpdate messages of one room reach the transport in the order
\* of the emitSetState calls.  Where msgDedupe is never truncated, randomID
\* hands out the MessageIDs in increasing order, so the order of the calls is
\* the order of the IDs: when a polling tick sends a buffered StateUpdate, every
\* StateUpdate emitted after it (hEmitted, with a greater ID) is still buffered.
C34_StateUpdatesSentInCallOrder ==
    (act.op = "tick" /\ act.msg.MessageType = "StateUpdate" /\ sent # << >>)
        => \A id \in hEmitted :
              id <= act.msg.MessageID \/ \E i \in DOMAIN buffer : buffer[i].msg.MessageID = id

\* C35: on every connection the Subscribe of a room that is registered when the
\* connection opens goes to the transport before any buffered StateUpdate or
\* CallFunction of that room: when a polling tick sends a buffered data message,
\* its room is not among the rooms that were registered at the opening of
\* conn.current and are still waiting for their Subscribe on it (hOwed).
C35_SubscribePrecedesBufferedData ==
    (act.op = "tick" /\ act.msg.MessageType \in InTypes /\ sent # << >>)
        => \A x \in hOwed : x.roomID # act.msg.RoomID

\* A polling tick has just sent a buffered StateUpdate on the open connection
\* for a room that is registered, after a connection loss and a reconnect.
C35_Witness ==
    /\ act.op = "tick"
    /\ act.msg.MessageType = "StateUpdate"
    /\ Len(sent) = 1
    /\ sent[1].sock = conn
    /\ Has(connectedRooms, act.msg.RoomID)
    /\ socks[conn].hAfterLoss

\* C36: a buffered message is never handed to the transport once its maximum
\* buffering time has passed: the polling tick that finds the deadline passed
\* (act.pre) sends nothing and reports no MessageEmitted whatever the state of
\* the connection, writes one error, and ends the polling loop, so that no
\* later tick can send the message.
C36_ExpiredMessageIsNeverSent ==
    [][(act'.op = "tick" /\ act'.pre)
        => (/\ sent' = << >>
            /\ evts' = << >>
            /\ Len(console') = 1
            /\ Len(buffer') = Len(buffer) - 1
            /\ \A i \in DOMAIN buffer' : buffer'[i].msg.MessageID # act'.msg.MessageID
                                         \/ act'.msg.MessageID = controlID)]_vars

\* The tick of a StateUpdate whose deadline had passed has just run while the
\* connection was open.
C36_Witness ==
    /\ act.op = "tick"
    /\ act.pre
    /\ act.open
    /\ act.msg.MessageType = "StateUpdate"
    /\ buffer = << >>

\* C37: at most one dedupe-truncation interval runs per provider however often
\* the provider renders, and none runs once the provider's cleanup has run.
C37_OneTruncationTimer ==
    /\ dedupeIntervals <= 1
    /\ act.op = "providerUnmount" => dedupeIntervals = 0

====
